---- MODULE Spec2Model ----
(***************************************************************************)
(* A model of celery.worker.bootsteps: the Namespace lifecycle state       *)
(* machine (start / close / stop / terminate / join), the process-wide     *)
(* default socket timeout that stop overrides, and the boot-order          *)
(* resolution done by apply.                                               *)
(***************************************************************************)
EXTENDS Integers, Sequences, FiniteSets, TLC

(***************************************************************************)
(* Bounds of the model.                                                    *)
(***************************************************************************)
MaxComponents == 2
MaxCalls == 3
MaxBlueprints == 3
MaxRequires == 3
MaxConcComponents == 1

(***************************************************************************)
(* Program constants.                                                      *)
(***************************************************************************)
SHUTDOWN_SOCKET_TIMEOUT == 5
UNSET == 0
RUN == 1
CLOSE == 2
TERMINATE == 3
NoTimeout == 0

\* Values socket.getdefaulttimeout() may have before the namespace is used.
InitialTimeouts == {NoTimeout, 30}

\* The execution contexts that may call start/close/stop on the namespace.
Callers == {1, 2}
MainCaller == CHOOSE t \in Callers : \A u \in Callers : t <= u

\* The execution contexts that may wait in join.
Waiters == {1, 2}

VARIABLES
    components,         \* parent.components: the host's list of included components
    obj,                \* obj[c]: TRUE when component c's create returned a service object
    hooks,              \* the set of hooks given to Namespace.__init__
    traits,             \* traits[c]: what component c's class defines (truth value, close)
    state,              \* Namespace.state
    started,            \* Namespace.started
    shutdown_complete,  \* Namespace.shutdown_complete (Event flag)
    socket_timeout,     \* the process-wide default socket timeout
    pc,                 \* pc[t]: position of caller t inside its current call
    idx,                \* idx[t]: loop index of caller t (1-based position in the iterated list)
    saved,              \* saved[t]: the local variable socket_timeout of stop
    cur,                \* cur[t]: index in ops of caller t's current call
    ops,                \* history of calls made on the namespace
    log,                \* history of calls the namespace made on components, hooks and the event
    jpc,                \* jpc[w]: position of waiter w inside Namespace.join
    registry,           \* Namespace._unclaimed[name]: the blueprints registered for the namespace
    ap                  \* the progress and the results of Namespace.apply

vars == <<components, obj, hooks, traits, state, started, shutdown_complete,
          socket_timeout, pc, idx, saved, cur, ops, log, jpc, registry, ap>>

\* The blueprints and what apply made of them.
applyvars == <<registry, ap>>

\* The state of the namespace, its host and its callers (all but the waiters).
nsvars == <<components, obj, hooks, traits, state, started, shutdown_complete,
            socket_timeout, pc, idx, saved, cur, ops, log, registry, ap>>

(***************************************************************************)
(* Helpers.                                                                *)
(***************************************************************************)
Reverse(s) == [i \in 1..Len(s) |-> s[Len(s) + 1 - i]]

\* Snapshot of the observable namespace state, recorded at entry and exit of a call.
Snap(st, sd, sig, to, n) ==
    [state |-> st, started |-> sd, sig |-> sig, timeout |-> to, nlog |-> n]

NoSnap == Snap(UNSET, 0, FALSE, NoTimeout, 0)

Event(t, ev, c) == [call |-> cur[t], ev |-> ev, c |-> c]

\* Caller t begins a call: a new record in the history.
BeginOp(t, op, term) ==
    /\ Len(ops) < MaxCalls
    /\ pc[t] = "idle"
    /\ ops' = Append(ops, [op |-> op, terminate |-> term, caller |-> t,
                           res |-> "run", path |-> "none",
                           entry |-> Snap(state, started, shutdown_complete,
                                          socket_timeout, Len(log)),
                           exit |-> NoSnap])
    /\ cur' = [cur EXCEPT ![t] = Len(ops) + 1]

\* Caller t leaves its call with result res ("ret" or "raise") by path.
EndOp(t, res, path, snap) ==
    /\ ops' = [ops EXCEPT ![cur[t]].res = res, ![cur[t]].path = path,
                          ![cur[t]].exit = snap]
    /\ pc' = [pc EXCEPT ![t] = "idle"]

CurOp(t) == ops[cur[t]]

(***************************************************************************)
(* Decisions taken by the code, as operators.                              *)
(***************************************************************************)
\* Variants of the guard that test one of the two states only.
InGuard_TerminateOnly(s) == s = TERMINATE

InGuard_CloseOnly(s) == s = CLOSE

\* Namespace.stop: the idempotent guard.
InGuard(s) == s \in {CLOSE, TERMINATE}

\* A variant of the fully-started test that compares the count only.
NotFullyStarted_CountOnly(st, sd, comps) == sd # Len(comps)

\* Namespace.stop: "Not fully started, can safely exit."
NotFullyStarted(st, sd, comps) == st # RUN \/ sd # Len(comps)

\* A variant that stops the components in boot order.
StopOrder_Forward(comps) == comps

\* Namespace.stop: the order in which components are stopped.
StopOrder(comps) == Reverse(comps)

\* A variant that ignores the terminate flag.
Method_AlwaysStop(term) == "stop"

\* Namespace.stop: the component method selected by the terminate flag.
Method(term) == IF term THEN "terminate" ELSE "stop"

\* Namespace.start: the value recorded in started before the component at
\* 1-based position i (0-based index i-1) is started.
StartedAt(i) == (i - 1) + 1

\* StartStopComponent.start/stop: self.obj.start() / self.obj.stop().  With
\* obj = None the attribute lookup raises; otherwise the service object's
\* method returns or raises.
ComponentCallOutcomes(c) == IF obj[c] THEN {"ret", "raise"} ELSE {"raise"}

\* The events of one component call: the call on the component and, when it
\* has a service object, the delegated call on the object.
ComponentCall(t, ev, objev, c) ==
    IF obj[c] THEN <<Event(t, ev, c), Event(t, objev, c)>>
              ELSE <<Event(t, ev, c)>>

HookCall(t, h) == IF h \in hooks THEN <<Event(t, h, 0)>> ELSE <<>>

\* "if self.on_start: self.on_start()" and the like: a hook that is set is
\* any callable, it returns or raises; a hook that is not set is not called.
HookOutcomes(h) == IF h \in hooks THEN {"ret", "raise"} ELSE {"ret"}

\* "if component:" in start and in stop: the truth value of the component,
\* false when its class defines __nonzero__ or __len__ so.
Truthy(c) == traits[c].truthy

\* close = component.close; close(parent): the attribute is absent
\* (AttributeError, the component is skipped), or it is
\* StartStopComponent.close, which does nothing, or the class overrides it
\* with a method that returns or raises.
CloseOutcomes(c) ==
    IF traits[c].close = "absent" THEN {"skip"}
    ELSE IF traits[c].close = "noop" THEN {"ret"}
    ELSE {"ret", "raise"}

(***************************************************************************)
(* Namespace.start                                                         *)
(***************************************************************************)
\* self.state = RUN
StartBegin(t) ==
    /\ BeginOp(t, "start", FALSE)
    /\ state' = RUN
    /\ pc' = [pc EXCEPT ![t] = "start_hook"]
    /\ UNCHANGED <<applyvars, jpc, components, obj, hooks, traits, started, shutdown_complete,
                   socket_timeout, idx, saved, log>>

\* if self.on_start: self.on_start()   (the call is made; its outcome is a
\* later step, CallReturns or CallRaises)
StartHook(t) ==
    /\ pc[t] = "start_hook"
    /\ log' = log \o HookCall(t, "on_start")
    /\ IF "on_start" \in hooks
       THEN /\ pc' = [pc EXCEPT ![t] = "start_hook_wait"]
            /\ UNCHANGED idx
       ELSE /\ idx' = [idx EXCEPT ![t] = 1]
            /\ pc' = [pc EXCEPT ![t] = "start_loop"]
    /\ UNCHANGED ops
    /\ UNCHANGED <<applyvars, jpc, components, obj, hooks, traits, state, started, shutdown_complete,
                   socket_timeout, saved, cur>>

\* if component: self.started = i + 1   (a false component is passed over)
StartRecord(t) ==
    /\ pc[t] = "start_loop"
    /\ idx[t] <= Len(components)
    /\ IF Truthy(components[idx[t]])
       THEN /\ started' = StartedAt(idx[t])
            /\ pc' = [pc EXCEPT ![t] = "start_call"]
            /\ UNCHANGED idx
       ELSE /\ idx' = [idx EXCEPT ![t] = idx[t] + 1]
            /\ UNCHANGED <<started, pc>>
    /\ UNCHANGED <<applyvars, jpc, components, obj, hooks, traits, state, shutdown_complete,
                   socket_timeout, saved, cur, ops, log>>

\* component.start(parent): the call is made (StartStopComponent.start
\* calls self.obj.start()); it returns or raises in a later step.
StartCall(t) ==
    /\ pc[t] = "start_call"
    /\ log' = log \o ComponentCall(t, "start", "obj.start", components[idx[t]])
    /\ pc' = [pc EXCEPT ![t] = "start_call_wait"]
    /\ UNCHANGED <<applyvars, jpc, components, obj, hooks, traits, state, started, shutdown_complete,
                   socket_timeout, idx, saved, cur, ops>>

\* The loop is exhausted: start returns.
StartReturn(t) ==
    /\ pc[t] = "start_loop"
    /\ idx[t] > Len(components)
    /\ EndOp(t, "ret", "none",
             Snap(state, started, shutdown_complete, socket_timeout, Len(log)))
    /\ UNCHANGED <<applyvars, jpc, components, obj, hooks, traits, state, started, shutdown_complete,
                   socket_timeout, idx, saved, cur, log>>

(***************************************************************************)
(* Namespace.close (called on its own, or by stop)                         *)
(***************************************************************************)
CloseBegin(t) ==
    /\ BeginOp(t, "close", FALSE)
    /\ pc' = [pc EXCEPT ![t] = "close_hook"]
    /\ UNCHANGED <<applyvars, jpc, components, obj, hooks, traits, state, started, shutdown_complete,
                   socket_timeout, idx, saved, log>>

\* The path recorded for a call that raised inside close: "close" when stop
\* had called close, "none" for a close call of its own.
ClosePath(t) == IF CurOp(t).op = "stop" THEN "close" ELSE "none"

\* A variant of the first step of close that also marks the namespace closed.
CloseHook_SetsState(t) ==
    /\ pc[t] = "close_hook"
    /\ state' = CLOSE
    /\ log' = log \o HookCall(t, "on_close")
    /\ IF "on_close" \in hooks
       THEN /\ pc' = [pc EXCEPT ![t] = "close_hook_wait"]
            /\ UNCHANGED idx
       ELSE /\ idx' = [idx EXCEPT ![t] = 1]
            /\ pc' = [pc EXCEPT ![t] = "close_loop"]
    /\ UNCHANGED <<applyvars, jpc, components, obj, hooks, traits, started, shutdown_complete,
                   socket_timeout, saved, cur, ops>>

\* if self.on_close: self.on_close()   (the call is made; its outcome is a
\* later step)
CloseHook(t) ==
    /\ pc[t] = "close_hook"
    /\ log' = log \o HookCall(t, "on_close")
    /\ IF "on_close" \in hooks
       THEN /\ pc' = [pc EXCEPT ![t] = "close_hook_wait"]
            /\ UNCHANGED idx
       ELSE /\ idx' = [idx EXCEPT ![t] = 1]
            /\ pc' = [pc EXCEPT ![t] = "close_loop"]
    /\ UNCHANGED ops
    /\ UNCHANGED <<applyvars, jpc, components, obj, hooks, traits, state, started, shutdown_complete,
                   socket_timeout, saved, cur>>

\* try: close = component.close / except AttributeError: pass / else:
\* close(parent): the component is skipped; or StartStopComponent.close is
\* called, which does nothing and returns; or the close its class defines
\* is called, and returns or raises in a later step.
CloseComponent(t) ==
    /\ pc[t] = "close_loop"
    /\ idx[t] <= Len(components)
    /\ LET c == components[idx[t]] IN
       IF CloseOutcomes(c) = {"skip"}
       THEN /\ idx' = [idx EXCEPT ![t] = idx[t] + 1]
            /\ UNCHANGED <<pc, log>>
       ELSE /\ log' = Append(log, Event(t, "close", c))
            /\ IF CloseOutcomes(c) = {"ret"}
               THEN /\ idx' = [idx EXCEPT ![t] = idx[t] + 1]
                    /\ UNCHANGED pc
               ELSE /\ pc' = [pc EXCEPT ![t] = "close_call_wait"]
                    /\ UNCHANGED idx
    /\ UNCHANGED <<applyvars, jpc, components, obj, hooks, traits, state, started, shutdown_complete,
                   socket_timeout, saved, cur, ops>>

\* The loop is exhausted: close returns, to its caller or into stop.
CloseReturn(t) ==
    /\ pc[t] = "close_loop"
    /\ idx[t] > Len(components)
    /\ IF CurOp(t).op = "close"
       THEN EndOp(t, "ret", "none",
                  Snap(state, started, shutdown_complete, socket_timeout, Len(log)))
       ELSE /\ pc' = [pc EXCEPT ![t] = "stop_check"]
            /\ UNCHANGED ops
    /\ UNCHANGED <<applyvars, jpc, components, obj, hooks, traits, state, started, shutdown_complete,
                   socket_timeout, idx, saved, cur, log>>

(***************************************************************************)
(* Namespace.stop(parent, terminate)                                       *)
(***************************************************************************)
\* socket_timeout = socket.getdefaulttimeout()
StopBegin(t, term) ==
    /\ BeginOp(t, "stop", term)
    /\ saved' = [saved EXCEPT ![t] = socket_timeout]
    /\ pc' = [pc EXCEPT ![t] = "stop_lower"]
    /\ UNCHANGED <<applyvars, jpc, components, obj, hooks, traits, state, started, shutdown_complete,
                   socket_timeout, idx, log>>

\* socket.setdefaulttimeout(SHUTDOWN_SOCKET_TIMEOUT)
StopLower(t) ==
    /\ pc[t] = "stop_lower"
    /\ socket_timeout' = SHUTDOWN_SOCKET_TIMEOUT
    /\ pc' = [pc EXCEPT ![t] = "stop_guard"]
    /\ UNCHANGED <<applyvars, jpc, components, obj, hooks, traits, state, started, shutdown_complete,
                   idx, saved, cur, ops, log>>

\* A variant of the guard that goes on to the fully-started test without
\* calling close.
StopGuard_SkipsClose(t) ==
    /\ pc[t] = "stop_guard"
    /\ IF InGuard(state)
       THEN EndOp(t, "ret", "guard",
                  Snap(state, started, shutdown_complete, socket_timeout, Len(log)))
       ELSE /\ pc' = [pc EXCEPT ![t] = "stop_check"]
            /\ UNCHANGED ops
    /\ UNCHANGED <<applyvars, jpc, components, obj, hooks, traits, state, started, shutdown_complete,
                   socket_timeout, idx, saved, cur, log>>

\* A variant of the guard that claims the shutdown in the same step as it
\* tests the state, so that no second caller can pass it.
StopGuard_TestAndSet(t) ==
    /\ pc[t] = "stop_guard"
    /\ IF InGuard(state)
       THEN /\ EndOp(t, "ret", "guard",
                     Snap(state, started, shutdown_complete, socket_timeout, Len(log)))
            /\ UNCHANGED state
       ELSE /\ pc' = [pc EXCEPT ![t] = "close_hook"]
            /\ state' = CLOSE
            /\ UNCHANGED ops
    /\ UNCHANGED <<applyvars, jpc, components, obj, hooks, traits, started, shutdown_complete,
                   socket_timeout, idx, saved, cur, log>>

\* if self.state in (CLOSE, TERMINATE): return;  otherwise self.close(parent)
StopGuard(t) ==
    /\ pc[t] = "stop_guard"
    /\ IF InGuard(state)
       THEN EndOp(t, "ret", "guard",
                  Snap(state, started, shutdown_complete, socket_timeout, Len(log)))
       ELSE /\ pc' = [pc EXCEPT ![t] = "close_hook"]
            /\ UNCHANGED ops
    /\ UNCHANGED <<applyvars, jpc, components, obj, hooks, traits, state, started, shutdown_complete,
                   socket_timeout, idx, saved, cur, log>>

\* if self.state != RUN or self.started != len(parent.components):
\* the test reads the state; the assignment that follows is a separate
\* statement, so another caller may run between the two.
StopCheck(t) ==
    /\ pc[t] = "stop_check"
    /\ pc' = [pc EXCEPT ![t] = IF NotFullyStarted(state, started, components)
                                THEN "stop_mark_terminate"
                                ELSE "stop_mark_close"]
    /\ UNCHANGED <<applyvars, jpc, components, obj, hooks, traits, state, started,
                   shutdown_complete, socket_timeout, idx, saved, cur, ops, log>>

\* Not fully started: self.state = TERMINATE
StopMarkTerminate(t) ==
    /\ pc[t] = "stop_mark_terminate"
    /\ state' = TERMINATE
    /\ pc' = [pc EXCEPT ![t] = "stop_partial_set"]
    /\ UNCHANGED <<applyvars, jpc, components, obj, hooks, traits, started, shutdown_complete,
                   socket_timeout, idx, saved, cur, ops, log>>

\* Fully started: self.state = CLOSE, then the reversed loop begins
StopMarkClose(t) ==
    /\ pc[t] = "stop_mark_close"
    /\ state' = CLOSE
    /\ idx' = [idx EXCEPT ![t] = 1]
    /\ pc' = [pc EXCEPT ![t] = "stop_loop"]
    /\ UNCHANGED <<applyvars, jpc, components, obj, hooks, traits, started, shutdown_complete,
                   socket_timeout, saved, cur, ops, log>>

\* A variant of the not-fully-started return that forgets to set the event.
StopPartialSet_NoSet(t) ==
    /\ pc[t] = "stop_partial_set"
    /\ EndOp(t, "ret", "partial",
             Snap(state, started, shutdown_complete, socket_timeout, Len(log)))
    /\ UNCHANGED <<applyvars, jpc, components, obj, hooks, traits, state, started, shutdown_complete,
                   socket_timeout, idx, saved, cur, log>>

\* Not fully started: self.shutdown_complete.set(); return
StopPartialSet(t) ==
    /\ pc[t] = "stop_partial_set"
    /\ shutdown_complete' = TRUE
    /\ log' = Append(log, Event(t, "set", 0))
    /\ EndOp(t, "ret", "partial",
             Snap(state, started, TRUE, socket_timeout, Len(log')))
    /\ UNCHANGED <<applyvars, jpc, components, obj, hooks, traits, state, started, socket_timeout,
                   idx, saved, cur>>

\* for component in reversed(parent.components): if component:
\* (component.terminate if terminate else component.stop)(parent)
\* A false component is passed over; on a true one the call is made
\* (StartStopComponent.terminate calls self.stop, which calls
\* self.obj.stop()), and it returns or raises in a later step.
StopComponent(t) ==
    /\ pc[t] = "stop_loop"
    /\ idx[t] <= Len(components)
    /\ LET c == StopOrder(components)[idx[t]] IN
       IF Truthy(c)
       THEN /\ log' = log \o ComponentCall(t, Method(CurOp(t).terminate), "obj.stop", c)
            /\ pc' = [pc EXCEPT ![t] = "stop_call_wait"]
            /\ UNCHANGED idx
       ELSE /\ idx' = [idx EXCEPT ![t] = idx[t] + 1]
            /\ UNCHANGED <<pc, log>>
    /\ UNCHANGED <<applyvars, jpc, components, obj, hooks, traits, state, started, shutdown_complete,
                   socket_timeout, saved, cur, ops>>

\* The loop is exhausted: if self.on_stopped: self.on_stopped()   (the call
\* is made; its outcome is a later step)
StopHook(t) ==
    /\ pc[t] = "stop_loop"
    /\ idx[t] > Len(components)
    /\ log' = log \o HookCall(t, "on_stopped")
    /\ pc' = [pc EXCEPT ![t] = IF "on_stopped" \in hooks THEN "stop_hook_wait"
                                                      ELSE "stop_terminate"]
    /\ UNCHANGED <<applyvars, jpc, components, obj, hooks, traits, state, started, shutdown_complete,
                   socket_timeout, idx, saved, cur, ops>>

(***************************************************************************)
(* The outcome of a call made to a hook or to a component.  The callee is  *)
(* code of the host or of a service: it may take any time, and meanwhile   *)
(* the caller stands at the call; when it raises, the exception leaves     *)
(* start, close or stop at that point.                                     *)
(***************************************************************************)
WaitStates == {"start_hook_wait", "start_call_wait", "close_hook_wait",
               "close_call_wait", "stop_call_wait", "stop_hook_wait"}

\* The outcomes the call caller t is standing at can have.
PendingOutcomes(t) ==
    CASE pc[t] = "start_hook_wait" -> HookOutcomes("on_start")
      [] pc[t] = "start_call_wait" -> ComponentCallOutcomes(components[idx[t]])
      [] pc[t] = "close_hook_wait" -> HookOutcomes("on_close")
      [] pc[t] = "close_call_wait" -> CloseOutcomes(components[idx[t]])
      [] pc[t] = "stop_call_wait"  ->
             ComponentCallOutcomes(StopOrder(components)[idx[t]])
      [] pc[t] = "stop_hook_wait"  -> HookOutcomes("on_stopped")

\* The statement that follows the call.
AfterCall(p) ==
    CASE p = "start_hook_wait" -> "start_loop"
      [] p = "start_call_wait" -> "start_loop"
      [] p = "close_hook_wait" -> "close_loop"
      [] p = "close_call_wait" -> "close_loop"
      [] p = "stop_call_wait"  -> "stop_loop"
      [] p = "stop_hook_wait"  -> "stop_terminate"

\* The path recorded for a call that an exception leaves at caller t's call.
RaisePath(t) ==
    IF pc[t] \in {"start_hook_wait", "start_call_wait"} THEN "none"
    ELSE IF pc[t] \in {"close_hook_wait", "close_call_wait"} THEN ClosePath(t)
    ELSE "full"

\* The call returns: after a hook the loop that follows begins with its
\* first component, after a component call the loop goes on to the next.
CallReturns(t) ==
    /\ pc[t] \in WaitStates
    /\ "ret" \in PendingOutcomes(t)
    /\ pc' = [pc EXCEPT ![t] = AfterCall(pc[t])]
    /\ idx' = [idx EXCEPT ![t] =
                  IF pc[t] \in {"start_hook_wait", "close_hook_wait"} THEN 1
                  ELSE IF pc[t] = "stop_hook_wait" THEN idx[t]
                  ELSE idx[t] + 1]
    /\ UNCHANGED <<applyvars, jpc, components, obj, hooks, traits, state, started, shutdown_complete,
                   socket_timeout, saved, cur, ops, log>>

\* The call raises: start, close or stop handles nothing, the exception
\* leaves it with the namespace as it is at that moment.
CallRaises(t) ==
    /\ pc[t] \in WaitStates
    /\ "raise" \in PendingOutcomes(t)
    /\ EndOp(t, "raise", RaisePath(t),
             Snap(state, started, shutdown_complete, socket_timeout, Len(log)))
    /\ UNCHANGED <<applyvars, jpc, components, obj, hooks, traits, state, started, shutdown_complete,
                   socket_timeout, idx, saved, cur, log>>

\* self.state = TERMINATE
StopTerminate(t) ==
    /\ pc[t] = "stop_terminate"
    /\ state' = TERMINATE
    /\ pc' = [pc EXCEPT ![t] = "stop_restore"]
    /\ UNCHANGED <<applyvars, jpc, components, obj, hooks, traits, started, shutdown_complete,
                   socket_timeout, idx, saved, cur, ops, log>>

\* socket.setdefaulttimeout(socket_timeout)
StopRestore(t) ==
    /\ pc[t] = "stop_restore"
    /\ socket_timeout' = saved[t]
    /\ pc' = [pc EXCEPT ![t] = "stop_set"]
    /\ UNCHANGED <<applyvars, jpc, components, obj, hooks, traits, state, started, shutdown_complete,
                   idx, saved, cur, ops, log>>

\* self.shutdown_complete.set(); stop returns
StopSet(t) ==
    /\ pc[t] = "stop_set"
    /\ shutdown_complete' = TRUE
    /\ log' = Append(log, Event(t, "set", 0))
    /\ EndOp(t, "ret", "full",
             Snap(state, started, TRUE, socket_timeout, Len(log')))
    /\ UNCHANGED <<applyvars, jpc, components, obj, hooks, traits, state, started, socket_timeout,
                   idx, saved, cur>>

(***************************************************************************)
(* Namespace.apply: boot-order resolution.                                 *)
(***************************************************************************)
\* The state of apply before it is called on a host whose components list
\* is host: nothing claimed, resolved, bound or included.
NotApplied(host) ==
    [pc |-> "idle", claimed |-> {}, last |-> 0, order |-> <<>>,
     binding |-> <<>>, assigned |-> FALSE, boot_steps |-> <<>>, i |-> 1,
     host |-> host]

\* A variant of the graph construction that forgets the requires edges.
RequiresGraph_NoEdges(reg) == [n \in DOMAIN reg |-> {}]

\* _finalize_boot_steps: DependencyGraph((C.name, C.requires) for C in ...):
\* the graph maps each claimed name to the names it requires.
RequiresGraph(reg) == [n \in DOMAIN reg |-> reg[n].requires]

\* _find_last: the first blueprint with last set, in the iteration order of
\* the claimed mapping (a dict: any of them may come first); 0 stands for None.
FindLast(reg) ==
    IF \E n \in DOMAIN reg : reg[n].last
    THEN {n \in DOMAIN reg : reg[n].last}
    ELSE {0}

\* A variant of the pin that adds no edge.
PinLast_NoEdges(G, l) == G

\* _finalize_boot_steps: for obj in G: if obj != last.name:
\*     G.add_edge(last.name, obj)
PinLast(G, l) ==
    [n \in DOMAIN G |-> IF n = l THEN G[n] \cup (DOMAIN G \ {l}) ELSE G[n]]

\* DependencyGraph.topsort: the nodes in an order that places every node
\* after the nodes its edges lead to; ties are broken by registration order.
\* When a cycle leaves no node ready, the order stays short of the nodes.
RECURSIVE TopSortFrom(_, _)
TopSortFrom(G, placed) ==
    LET done  == {placed[j] : j \in 1..Len(placed)}
        ready == {n \in DOMAIN G \ done : G[n] \subseteq done}
    IN  IF ready = {} THEN placed
        ELSE TopSortFrom(G, Append(placed,
                 CHOOSE n \in ready : \A m \in ready : n <= m))

TopSort(G) == TopSortFrom(G, <<>>)

\* DependencyGraph.topsort fails with a cycle error when no valid order exists.
TopSortFails(G) == Len(TopSort(G)) < Cardinality(DOMAIN G)

\* The components a host's list may hold.  NormalKind is a
\* StartStopComponent as the module defines it, with a service object; the
\* others differ from it in one respect: create returned None; the class
\* defines a false truth value; the object has no close attribute; the class
\* overrides close.
NormalKind == [obj |-> TRUE, truthy |-> TRUE, close |-> "noop"]

ComponentKinds ==
    {NormalKind,
     [obj |-> FALSE, truthy |-> TRUE,  close |-> "noop"],
     [obj |-> TRUE,  truthy |-> FALSE, close |-> "noop"],
     [obj |-> TRUE,  truthy |-> TRUE,  close |-> "absent"],
     [obj |-> TRUE,  truthy |-> TRUE,  close |-> "custom"]}

NormalTraits == [truthy |-> NormalKind.truthy, close |-> NormalKind.close]

\* The hooks given to Namespace.__init__: none, on_stopped alone, or all
\* three (each hook is called only when it is set).
HookSets == {{}, {"on_stopped"}, {"on_start", "on_close", "on_stopped"}}

(***************************************************************************)
(* The lifecycle specification: one caller drives the namespace through    *)
(* any sequence of start, close, stop and terminate calls.  The host's     *)
(* components list holds up to MaxComponents components.  The plain        *)
(* configuration is: every component a NormalKind one, no hook, no default *)
(* socket timeout.  A configuration differs from the plain one in one      *)
(* factor at most: one component of another kind, or hooks, or a default   *)
(* socket timeout set before the namespace is used.                        *)
(***************************************************************************)
Init ==
    /\ \E n \in 0..MaxComponents :
         \E kind \in [1..n -> ComponentKinds] :
            /\ \A c \in 1..n : \A d \in 1..n :
                  (kind[c] # NormalKind /\ kind[d] # NormalKind) => c = d
            /\ components = [i \in 1..n |-> i]
            /\ obj = [c \in 1..n |-> kind[c].obj]
            /\ traits = [c \in 1..n |-> [truthy |-> kind[c].truthy,
                                          close |-> kind[c].close]]
    /\ hooks \in HookSets
    /\ socket_timeout \in InitialTimeouts
    /\ \/ hooks = {} /\ socket_timeout = NoTimeout
       \/ /\ \A c \in DOMAIN traits : obj[c] /\ traits[c] = NormalTraits
          /\ hooks = {} \/ socket_timeout = NoTimeout
    /\ state = UNSET
    /\ started = 0
    /\ shutdown_complete = FALSE
    /\ pc = [t \in Callers |-> "idle"]
    /\ idx = [t \in Callers |-> 1]
    /\ saved = [t \in Callers |-> NoTimeout]
    /\ cur = [t \in Callers |-> 0]
    /\ ops = <<>>
    /\ log = <<>>
    /\ jpc = [w \in Waiters |-> "idle"]
    /\ registry = <<>>
    /\ ap = NotApplied(components)

\* The steps of a start call or of a stop/terminate call (close included, as
\* stop calls it).
StartStopStep(t, terms) ==
    \/ StartBegin(t)
    \/ StartHook(t)
    \/ StartRecord(t)
    \/ StartCall(t)
    \/ StartReturn(t)
    \/ CloseHook(t)
    \/ CloseComponent(t)
    \/ CloseReturn(t)
    \/ \E term \in terms : StopBegin(t, term)
    \/ StopLower(t)
    \/ StopGuard(t)
    \/ StopCheck(t)
    \/ StopMarkTerminate(t)
    \/ StopMarkClose(t)
    \/ StopPartialSet(t)
    \/ StopComponent(t)
    \/ StopHook(t)
    \/ StopTerminate(t)
    \/ StopRestore(t)
    \/ StopSet(t)
    \/ CallReturns(t)
    \/ CallRaises(t)

Next ==
    \/ StartStopStep(MainCaller, BOOLEAN)
    \/ CloseBegin(MainCaller)

Spec == Init /\ [][Next]_vars

(***************************************************************************)
(* Namespace.join(timeout)                                                 *)
(***************************************************************************)
\* A context calls join, with or without a timeout, and blocks in
\* self.shutdown_complete.wait(timeout=timeout).
JoinBegin(w, timed) ==
    /\ jpc[w] = "idle"
    /\ jpc' = [jpc EXCEPT ![w] = IF timed THEN "wait_timeout" ELSE "wait"]
    /\ UNCHANGED nsvars

\* A variant in which the waiter is never woken by the event.
JoinWake_Lost(w) ==
    /\ jpc[w] \in {"wait", "wait_timeout"}
    /\ shutdown_complete
    /\ UNCHANGED vars

\* The event is set: wait returns, and join returns.
JoinWake(w) ==
    /\ jpc[w] \in {"wait", "wait_timeout"}
    /\ shutdown_complete
    /\ jpc' = [jpc EXCEPT ![w] = "returned"]
    /\ UNCHANGED nsvars

\* The timeout elapses before the event is set: wait returns, and join returns.
JoinTimeout(w) ==
    /\ jpc[w] = "wait_timeout"
    /\ jpc' = [jpc EXCEPT ![w] = "gave_up"]
    /\ UNCHANGED nsvars

\* The wait is interrupted by one of IGNORE_ERRORS (GreenletExit), which join
\* swallows: join returns.
JoinInterrupted(w) ==
    /\ jpc[w] \in {"wait", "wait_timeout"}
    /\ jpc' = [jpc EXCEPT ![w] = "gave_up"]
    /\ UNCHANGED nsvars

(***************************************************************************)
(* The specification with waiters: one caller drives a namespace whose     *)
(* components all have a service object through start and stop calls (stop *)
(* with its default terminate=False: the component method selected has no  *)
(* bearing on the event), while other contexts wait in join.  A set Event  *)
(* wakes every context blocked in wait, hence the weak fairness of         *)
(* JoinWake.                                                               *)
(***************************************************************************)
InitLive ==
    /\ Init
    /\ hooks = {}
    /\ socket_timeout = NoTimeout
    /\ \A c \in DOMAIN obj : obj[c] /\ traits[c] = NormalTraits

NextLive ==
    \/ StartStopStep(MainCaller, {FALSE})
    \/ \E w \in Waiters : \E timed \in BOOLEAN : JoinBegin(w, timed)
    \/ \E w \in Waiters : JoinWake(w)
    \/ \E w \in Waiters : JoinTimeout(w)
    \/ \E w \in Waiters : JoinInterrupted(w)

SpecLive ==
    /\ InitLive
    /\ [][NextLive]_vars
    /\ \A w \in Waiters : WF_vars(JoinWake(w))

(***************************************************************************)
(* The concurrent specification: Namespace holds no lock, so the steps of  *)
(* calls made by different callers interleave statement by statement.      *)
(* Each caller, whenever it is not inside a call, may begin any call:      *)
(* start, stop, terminate or close, whatever the other caller is doing and *)
(* whatever was called before, up to MaxCalls calls in all.  The host      *)
(* holds at most MaxConcComponents components, each with a service object, *)
(* and the on_stopped hook is set.                                         *)
(***************************************************************************)
InitConc ==
    /\ Init
    /\ Len(components) <= MaxConcComponents
    /\ hooks = {"on_stopped"}
    /\ socket_timeout = NoTimeout
    /\ \A c \in DOMAIN obj : obj[c] /\ traits[c] = NormalTraits

NextConc ==
    \E t \in Callers :
        \/ StartStopStep(t, BOOLEAN)
        \/ CloseBegin(t)

SpecConc == InitConc /\ [][NextConc]_vars

(***************************************************************************)
(* Namespace.apply(parent)                                                 *)
(***************************************************************************)
\* self.components = self._claim()
ApplyClaim ==
    /\ ap.pc = "idle"
    /\ ap' = [ap EXCEPT !.pc = "resolve", !.claimed = DOMAIN registry]
    /\ UNCHANGED <<registry, components, obj, hooks, traits, state, started,
                   shutdown_complete, socket_timeout, pc, idx, saved, cur,
                   ops, log, jpc>>

\* A variant that goes on with whatever order the resolver could build.
ApplyResolve_IgnoresFailure ==
    /\ ap.pc = "resolve"
    /\ \E l \in FindLast(registry) :
         ap' = [ap EXCEPT !.pc = "bind", !.last = l,
                          !.order = TopSort(PinLast(RequiresGraph(registry), l))]
    /\ UNCHANGED <<registry, components, obj, hooks, traits, state, started,
                   shutdown_complete, socket_timeout, pc, idx, saved, cur,
                   ops, log, jpc>>

\* self._finalize_boot_steps(): the graph of requires, the last pin, topsort.
\* It is evaluated before anything is bound; when topsort fails, apply fails.
ApplyResolve ==
    /\ ap.pc = "resolve"
    /\ \E l \in FindLast(registry) :
         LET G == PinLast(RequiresGraph(registry), l) IN
         IF TopSortFails(G)
         THEN ap' = [ap EXCEPT !.pc = "failed", !.last = l]
         ELSE ap' = [ap EXCEPT !.pc = "bind", !.last = l, !.order = TopSort(G)]
    /\ UNCHANGED <<registry, components, obj, hooks, traits, state, started,
                   shutdown_complete, socket_timeout, pc, idx, saved, cur,
                   ops, log, jpc>>

\* bind_component(name, parent): self[name](parent, **kwargs) is called, the
\* constructor of the blueprint next in the resolved order.
ApplyBind ==
    /\ ap.pc = "bind"
    /\ Len(ap.binding) < Len(ap.order)
    /\ ap' = [ap EXCEPT !.pc = "bind_wait"]
    /\ UNCHANGED <<registry, components, obj, hooks, traits, state, started,
                   shutdown_complete, socket_timeout, pc, idx, saved, cur,
                   ops, log, jpc>>

\* A variant that binds and includes each component in a single loop.
ApplyBound_IncludesAtOnce ==
    /\ ap.pc = "bind_wait"
    /\ LET name == ap.order[Len(ap.binding) + 1] IN
       /\ ap' = [ap EXCEPT !.pc = "bind", !.binding = Append(ap.binding, name)]
       /\ log' = log \o <<[call |-> 0, ev |-> "bind", c |-> name],
                           [call |-> 0, ev |-> "include", c |-> name]>>
    /\ UNCHANGED <<registry, components, obj, hooks, traits, state, started,
                   shutdown_complete, socket_timeout, pc, idx, saved, cur,
                   ops, jpc>>

\* The constructor returns: comp.namespace = self; return comp.
ApplyBound ==
    /\ ap.pc = "bind_wait"
    /\ LET name == ap.order[Len(ap.binding) + 1] IN
       /\ ap' = [ap EXCEPT !.pc = "bind", !.binding = Append(ap.binding, name)]
       /\ log' = Append(log, [call |-> 0, ev |-> "bind", c |-> name])
    /\ UNCHANGED <<registry, components, obj, hooks, traits, state, started,
                   shutdown_complete, socket_timeout, pc, idx, saved, cur,
                   ops, jpc>>

\* self.boot_steps = [...]: assigned once every name of the order is bound.
ApplyAssign ==
    /\ ap.pc = "bind"
    /\ Len(ap.binding) = Len(ap.order)
    /\ ap' = [ap EXCEPT !.pc = "include", !.assigned = TRUE,
                        !.boot_steps = ap.binding, !.i = 1]
    /\ UNCHANGED <<registry, components, obj, hooks, traits, state, started,
                   shutdown_complete, socket_timeout, pc, idx, saved, cur,
                   ops, log, jpc>>

\* for component in self.boot_steps: component.include(parent), whose first
\* statement calls self.include_if(parent).
ApplyInclude ==
    /\ ap.pc = "include"
    /\ ap.i <= Len(ap.boot_steps)
    /\ log' = Append(log, [call |-> 0, ev |-> "include", c |-> ap.boot_steps[ap.i]])
    /\ ap' = [ap EXCEPT !.pc = "include_if_wait"]
    /\ UNCHANGED <<registry, components, obj, hooks, traits, state, started,
                   shutdown_complete, socket_timeout, pc, idx, saved, cur,
                   ops, jpc>>

\* A variant in which a StartStopComponent appends itself to the host's list
\* whatever include_if answered.
ApplyIncludeIf_AppendsDisabled ==
    /\ ap.pc = "include_if_wait"
    /\ LET c == ap.boot_steps[ap.i] IN
       IF registry[c].enabled
       THEN /\ log' = Append(log, [call |-> 0, ev |-> "create", c |-> c])
            /\ ap' = [ap EXCEPT !.pc = "create_wait"]
       ELSE /\ ap' = IF registry[c].startstop
                     THEN [ap EXCEPT !.pc = "append"]
                     ELSE [ap EXCEPT !.pc = "include", !.i = ap.i + 1]
            /\ UNCHANGED log
    /\ UNCHANGED <<registry, components, obj, hooks, traits, state, started,
                   shutdown_complete, socket_timeout, pc, idx, saved, cur,
                   ops, jpc>>

\* include_if returns (self.enabled, by default).  True: self.create(parent)
\* is called.  False: include returns None, nothing is created or appended,
\* and the loop goes on.
ApplyIncludeIf ==
    /\ ap.pc = "include_if_wait"
    /\ LET c == ap.boot_steps[ap.i] IN
       IF registry[c].enabled
       THEN /\ log' = Append(log, [call |-> 0, ev |-> "create", c |-> c])
            /\ ap' = [ap EXCEPT !.pc = "create_wait"]
       ELSE /\ ap' = [ap EXCEPT !.pc = "include", !.i = ap.i + 1]
            /\ UNCHANGED log
    /\ UNCHANGED <<registry, components, obj, hooks, traits, state, started,
                   shutdown_complete, socket_timeout, pc, idx, saved, cur,
                   ops, jpc>>

\* create returns: self.obj = <its result>; return True.  In a
\* StartStopComponent, include goes on to the append; for a plain Component
\* the loop goes on.
ApplyCreated ==
    /\ ap.pc = "create_wait"
    /\ LET c == ap.boot_steps[ap.i] IN
       /\ obj' = (c :> registry[c].creates) @@ obj
       /\ ap' = IF registry[c].startstop
                THEN [ap EXCEPT !.pc = "append"]
                ELSE [ap EXCEPT !.pc = "include", !.i = ap.i + 1]
    /\ UNCHANGED <<registry, components, hooks, traits, state, started,
                   shutdown_complete, socket_timeout, pc, idx, saved, cur,
                   ops, log, jpc>>

\* StartStopComponent.include: parent.components.append(self)
ApplyAppend ==
    /\ ap.pc = "append"
    /\ components' = Append(components, ap.boot_steps[ap.i])
    /\ ap' = [ap EXCEPT !.pc = "include", !.i = ap.i + 1]
    /\ UNCHANGED <<registry, obj, hooks, traits, state, started,
                   shutdown_complete, socket_timeout, pc, idx, saved, cur,
                   ops, log, jpc>>

\* A constructor, include_if or create raises: apply handles nothing, the
\* exception leaves it where it stands, with what was done so far.
ApplyRaises ==
    /\ ap.pc \in {"bind_wait", "include_if_wait", "create_wait"}
    /\ ap' = [ap EXCEPT !.pc = "aborted"]
    /\ UNCHANGED <<registry, components, obj, hooks, traits, state, started,
                   shutdown_complete, socket_timeout, pc, idx, saved, cur,
                   ops, log, jpc>>

\* return self
ApplyReturn ==
    /\ ap.pc = "include"
    /\ ap.i > Len(ap.boot_steps)
    /\ ap' = [ap EXCEPT !.pc = "done"]
    /\ UNCHANGED <<registry, components, obj, hooks, traits, state, started,
                   shutdown_complete, socket_timeout, pc, idx, saved, cur,
                   ops, log, jpc>>

(***************************************************************************)
(* The specification of apply: a fresh namespace claims up to              *)
(* MaxBlueprints blueprints, all enabled StartStopComponents whose create  *)
(* returns a service object, with any requires relation of at most         *)
(* MaxRequires entries among them and any last flags, and applies them to  *)
(* a host whose components list is empty or holds one earlier component.   *)
(***************************************************************************)
\* The number of requires entries of the blueprints 1..n under reqs.
RECURSIVE NumRequires(_, _)
NumRequires(reqs, n) ==
    IF n = 0 THEN 0 ELSE Cardinality(reqs[n]) + NumRequires(reqs, n - 1)

InitApply ==
    /\ \E n \in 0..MaxBlueprints :
         \E reqs \in [1..n -> SUBSET (1..n)] :
           \E lasts \in [1..n -> BOOLEAN] :
             /\ NumRequires(reqs, n) <= MaxRequires
             /\ registry = [c \in 1..n |->
                              [requires |-> reqs[c], last |-> lasts[c],
                               enabled |-> TRUE, startstop |-> TRUE,
                               creates |-> TRUE]]
    /\ components \in {<<>>, <<0>>}
    /\ obj = [c \in {components[j] : j \in 1..Len(components)} |-> TRUE]
    /\ traits = [c \in 0..MaxBlueprints |-> NormalTraits]
    /\ hooks = {}
    /\ state = UNSET
    /\ started = 0
    /\ shutdown_complete = FALSE
    /\ socket_timeout = NoTimeout
    /\ pc = [t \in Callers |-> "idle"]
    /\ idx = [t \in Callers |-> 1]
    /\ saved = [t \in Callers |-> NoTimeout]
    /\ cur = [t \in Callers |-> 0]
    /\ ops = <<>>
    /\ log = <<>>
    /\ jpc = [w \in Waiters |-> "idle"]
    /\ ap = NotApplied(components)

NextApply ==
    \/ ApplyClaim
    \/ ApplyResolve
    \/ ApplyBind
    \/ ApplyBound
    \/ ApplyAssign
    \/ ApplyInclude
    \/ ApplyIncludeIf
    \/ ApplyCreated
    \/ ApplyAppend
    \/ ApplyRaises
    \/ ApplyReturn

SpecApply == InitApply /\ [][NextApply]_vars

(***************************************************************************)
(* The specification of inclusion: apply over up to MaxBlueprints          *)
(* blueprints of every kind: enabled or disabled (include_if returns       *)
(* self.enabled), StartStopComponent or plain Component, create returning  *)
(* a service object or None.  The requires relation is empty or the chain  *)
(* in which each blueprint requires the next one, and either no blueprint  *)
(* or the first one is flagged last, so that the boot order differs from   *)
(* the order of the names.                                                 *)
(***************************************************************************)
InitInclude ==
    /\ \E n \in 0..MaxBlueprints :
         \E en \in [1..n -> BOOLEAN] :
           \E ss \in [1..n -> BOOLEAN] :
             \E cr \in [1..n -> BOOLEAN] :
               \E chain \in BOOLEAN :
                 \E pinned \in BOOLEAN :
                   /\ \A c \in 1..n : cr[c] => en[c]
                   /\ registry = [c \in 1..n |->
                        [requires |-> IF chain /\ c < n THEN {c + 1} ELSE {},
                         last |-> pinned /\ c = 1,
                         enabled |-> en[c], startstop |-> ss[c],
                         creates |-> cr[c]]]
    /\ components \in {<<>>, <<0>>}
    /\ obj = [c \in {components[j] : j \in 1..Len(components)} |-> TRUE]
    /\ traits = [c \in 0..MaxBlueprints |-> NormalTraits]
    /\ hooks = {}
    /\ state = UNSET
    /\ started = 0
    /\ shutdown_complete = FALSE
    /\ socket_timeout = NoTimeout
    /\ pc = [t \in Callers |-> "idle"]
    /\ idx = [t \in Callers |-> 1]
    /\ saved = [t \in Callers |-> NoTimeout]
    /\ cur = [t \in Callers |-> 0]
    /\ ops = <<>>
    /\ log = <<>>
    /\ jpc = [w \in Waiters |-> "idle"]
    /\ ap = NotApplied(components)

SpecInclude == InitInclude /\ [][NextApply]_vars

(***************************************************************************)
(* Reading the histories.                                                  *)
(***************************************************************************)
IsPrefix(a, b) == Len(a) <= Len(b) /\ \A j \in 1..Len(a) : a[j] = b[j]

\* The events of call i whose kind is in kinds, in the order they were made.
EventsOf(i, kinds) == SelectSeq(log, LAMBDA e : e.call = i /\ e.ev \in kinds)

CompsOf(evs) == [j \in 1..Len(evs) |-> evs[j].c]

StopKinds == {"stop", "terminate"}

IsStop(i) == i \in DOMAIN ops /\ ops[i].op = "stop"

IsStart(i) == i \in DOMAIN ops /\ ops[i].op = "start"

Finished(i) == ops[i].res \in {"ret", "raise"}

\* The last start call made before call i (0 when there is none).
LastStartBefore(i) ==
    IF \E j \in 1..(i - 1) : IsStart(j)
    THEN CHOOSE j \in 1..(i - 1) :
            IsStart(j) /\ \A k \in (j + 1)..(i - 1) : ~IsStart(k)
    ELSE 0

\* The order in which the last start call before call i started the components.
StartOrderBefore(i) == CompsOf(EventsOf(LastStartBefore(i), {"start"}))

\* Call i was entered with state = RUN and started = number of components.
FullyStartedAt(i) ==
    ops[i].entry.state = RUN /\ ops[i].entry.started = Len(components)

NumSets == Len(SelectSeq(log, LAMBDA e : e.ev = "set"))

\* Call i raised, and the last call it had made was of one of kinds: the
\* exception came out of that call.
RaisedIn(i, kinds) ==
    /\ ops[i].res = "raise"
    /\ LET evs == SelectSeq(log, LAMBDA e : e.call = i) IN
       evs # <<>> /\ evs[Len(evs)].ev \in kinds

(***************************************************************************)
(* C1: a stop call entered with state = RUN and started = number of        *)
(* components, after a start call that invoked start on every component,   *)
(* invokes the selected method (stop, or terminate when                    *)
(* terminate=true) on the components in exactly the reverse of the order   *)
(* in which start started them, each at most once while the call runs and  *)
(* each exactly once when the call returns; it then returns with state     *)
(* TERMINATE, the Shutdown Signal set, the set being its last effect.      *)
(***************************************************************************)
C1_StopReversesStartOrder ==
    \A i \in DOMAIN ops :
        (IsStop(i) /\ FullyStartedAt(i) /\ StartOrderBefore(i) = components) =>
            LET calls == EventsOf(i, StopKinds)
                want  == Reverse(StartOrderBefore(i))
            IN  /\ \A j \in 1..Len(calls) :
                     calls[j].ev = (IF ops[i].terminate THEN "terminate" ELSE "stop")
                /\ IsPrefix(CompsOf(calls), want)
                /\ ops[i].res = "ret" =>
                     /\ CompsOf(calls) = want
                     /\ Len(want) = Len(components)
                     /\ ops[i].exit.state = TERMINATE
                     /\ ops[i].exit.sig
                     /\ log[ops[i].exit.nlog] = [call |-> i, ev |-> "set", c |-> 0]
                     /\ Len(EventsOf(i, {"set"})) = 1

\* A stop call on two components, both started to completion, has returned.
C1_Witness ==
    \E i \in DOMAIN ops :
        /\ IsStop(i) /\ FullyStartedAt(i) /\ ops[i].res = "ret"
        /\ Len(components) = 2
        /\ ops[LastStartBefore(i)].res = "ret"
        /\ StartOrderBefore(i) = components
        /\ CompsOf(EventsOf(i, StopKinds)) = <<2, 1>>

(***************************************************************************)
(* C2: when start raised inside a component's start call, the next stop    *)
(* call invokes stop/terminate on no component, and returns with state     *)
(* TERMINATE and the Shutdown Signal set.                                  *)
(***************************************************************************)
C2_NoComponentStopAfterFailedStart ==
    \A i \in DOMAIN ops :
        (IsStop(i) /\ i > 1 /\ IsStart(i - 1)
                   /\ RaisedIn(i - 1, {"start", "obj.start"})) =>
            /\ EventsOf(i, StopKinds) = <<>>
            /\ Finished(i) =>
                 /\ ops[i].res = "ret"
                 /\ ops[i].exit.state = TERMINATE
                 /\ ops[i].exit.sig

(***************************************************************************)
(* C3: every stop call that returns leaves the default socket timeout      *)
(* equal to the value it had when the call was made.                       *)
(***************************************************************************)
C3_TimeoutRestoredOnReturn ==
    \A i \in DOMAIN ops :
        (IsStop(i) /\ ops[i].res = "ret") =>
            ops[i].exit.timeout = ops[i].entry.timeout

(***************************************************************************)
(* C4: a stop call made right after a stop call that got past close (it    *)
(* returned, by whichever path, or it raised after the state was set to    *)
(* CLOSE) changes nothing:                                                 *)
(* while it runs and when it has returned, the state, the started counter, *)
(* the Shutdown Signal and the invocations made on components, hooks and   *)
(* the event are as the first call left them.                              *)
(***************************************************************************)
C4_SecondStopIsNoOp ==
    \A i \in DOMAIN ops :
        (IsStop(i) /\ i > 1 /\ IsStop(i - 1) /\ ops[i - 1].path # "close") =>
            LET first == ops[i - 1].exit IN
            /\ ops[i].res # "raise"
            /\ ops[i].res = "ret" =>
                 /\ ops[i].exit.state = first.state
                 /\ ops[i].exit.started = first.started
                 /\ ops[i].exit.sig = first.sig
                 /\ ops[i].exit.nlog = first.nlog
            /\ i = Len(ops) =>
                 /\ state = first.state
                 /\ started = first.started
                 /\ shutdown_complete = first.sig
                 /\ Len(log) = first.nlog

\* Two stop calls in succession have returned, the first by the fully-started path.
C4_Witness ==
    \E i \in DOMAIN ops :
        /\ IsStop(i) /\ i > 1 /\ IsStop(i - 1)
        /\ ops[i - 1].path = "full" /\ ops[i - 1].res = "ret"
        /\ ops[i].res = "ret"
        /\ Len(components) >= 2

(***************************************************************************)
(* C5: one caller, at most one start call, made before any stop call.      *)
(***************************************************************************)
\* The history is at most one start call followed by stop/terminate calls.
StartThenStops ==
    \A i \in DOMAIN ops : IF i = 1 THEN ops[i].op \in {"start", "stop"}
                                   ELSE ops[i].op = "stop"

FirstStop == CHOOSE i \in DOMAIN ops : IsStop(i) /\ \A j \in 1..(i - 1) : ~IsStop(j)

FirstReturnedStop ==
    CHOOSE i \in DOMAIN ops :
        /\ IsStop(i) /\ ops[i].res = "ret"
        /\ \A j \in 1..(i - 1) : ~(IsStop(j) /\ ops[j].res = "ret")

\* C5 as stated: the Shutdown Signal is set exactly once, by the first stop
\* call that completes, and by no later one.
C5_SetExactlyOnceByFirstCompletedStop ==
    (StartThenStops /\ \E i \in DOMAIN ops : IsStop(i) /\ ops[i].res = "ret") =>
        /\ NumSets = 1
        /\ \A j \in DOMAIN log : log[j].ev = "set" => log[j].call = FirstReturnedStop

\* Stop call i did not raise inside close (on_close or a component's close).
PastClose(i) == IsStop(i) /\ ops[i].path # "close"

\* The first stop call that did not raise inside close.
FirstStopPastClose ==
    CHOOSE i \in DOMAIN ops :
        PastClose(i) /\ \A j \in 1..(i - 1) : ~PastClose(j)

\* C5 as amended: the Shutdown Signal is set at most once, and only by the
\* first stop call that does not raise inside close; it is set when that
\* call returns, and it is never set when that call raises (in a
\* component's stop/terminate or in on_stopped).  No other stop call sets it.
C5_SetAtMostOnceByFirstStop ==
    StartThenStops =>
        /\ NumSets <= 1
        /\ (\A i \in DOMAIN ops : ~PastClose(i)) => (NumSets = 0 /\ ~shutdown_complete)
        /\ (\E i \in DOMAIN ops : PastClose(i)) =>
             /\ \A j \in DOMAIN log :
                  log[j].ev = "set" => log[j].call = FirstStopPastClose
             /\ ops[FirstStopPastClose].res = "ret"
                  => (NumSets = 1 /\ shutdown_complete)
             /\ ops[FirstStopPastClose].res = "raise"
                  => (NumSets = 0 /\ ~shutdown_complete)

\* A start call followed by two stop calls that returned, the first having set the signal.
C5_Witness ==
    /\ StartThenStops
    /\ Len(ops) = 3
    /\ IsStart(1) /\ IsStop(2) /\ IsStop(3)
    /\ ops[2].res = "ret" /\ ops[3].res = "ret"
    /\ NumSets = 1

(***************************************************************************)
(* C6: no step changes the state to an earlier one along                   *)
(* unset -> RUN -> CLOSE -> TERMINATE.                                     *)
(***************************************************************************)
\* This step is the first step of a start call.
StartBeginStep == Len(ops') = Len(ops) + 1 /\ ops'[Len(ops')].op = "start"

\* C6 as stated.
C6_StateNeverMovesBack == [][state' >= state]_vars

\* C6 as amended: the only step that moves the state back is the first step
\* of a start call made when the state is not unset, which sets it to RUN;
\* close, stop and terminate never move it back, and a start call made when
\* the state is unset moves it forward.
C6_OnlyStartMovesStateBack ==
    [][/\ state' < state => (StartBeginStep /\ state # UNSET /\ state' = RUN)
       /\ (~StartBeginStep) => state' >= state
       /\ (StartBeginStep /\ state = UNSET) => state' = RUN]_vars

\* A stop call moved the state from RUN through CLOSE to TERMINATE, and a
\* start call made after it has set the state back to RUN.
C6_Witness ==
    \E i \in DOMAIN ops :
        /\ IsStop(i) /\ ops[i].path = "full" /\ ops[i].res = "ret"
        /\ ops[i].entry.state = RUN /\ ops[i].exit.state = TERMINATE
        /\ IsStart(i + 1) /\ ops[i + 1].entry.state = TERMINATE
        /\ state = RUN

(***************************************************************************)
(* C7: once a stop call has returned, the Shutdown Signal is set, so every *)
(* join without timeout eventually returns.                                *)
(***************************************************************************)
\* C7 as stated, for every return path of stop, the guard included.
C7_SignalSetOnceStopReturned ==
    \A i \in DOMAIN ops : (IsStop(i) /\ ops[i].res = "ret") => shutdown_complete

\* Some stop call has returned leaving the state TERMINATE.
StopReturnedTerminated ==
    \E i \in DOMAIN ops :
        IsStop(i) /\ ops[i].res = "ret" /\ ops[i].exit.state = TERMINATE

\* C7 as amended: once a stop call has returned with state TERMINATE (by the
\* not-fully-started path, the fully-started path, or the guard when the
\* state was already TERMINATE) the Shutdown Signal is set, and every
\* context waiting in join without timeout eventually leaves join (woken by
\* the event, or interrupted by one of IGNORE_ERRORS, which join swallows).
\* A stop call turned away at the guard because the state was CLOSE returns
\* with the state still CLOSE and is not covered.
C7_JoinReturnsOnceStopTerminated ==
    /\ [](StopReturnedTerminated => shutdown_complete)
    /\ \A w \in Waiters :
         (StopReturnedTerminated /\ jpc[w] = "wait") ~> (jpc[w] \in {"returned", "gave_up"})

\* A stop call has returned with state TERMINATE and both waiters, which
\* joined without timeout, were woken by the event.
C7_Witness ==
    /\ StopReturnedTerminated
    /\ \A w \in Waiters : jpc[w] = "returned"
    /\ \E i \in DOMAIN ops : IsStop(i) /\ ops[i].path = "guard" /\ ops[i].res = "ret"

(***************************************************************************)
(* Reading the blueprints.                                                 *)
(***************************************************************************)
\* The nodes reached from the set S by following edges of G, S included.
RECURSIVE Closure(_, _)
Closure(G, S) ==
    LET T == S \cup UNION {G[m] : m \in S}
    IN  IF T = S THEN S ELSE Closure(G, T)

\* Some node of G reaches itself along one or more edges.
Cyclic(G) == \E n \in DOMAIN G : n \in Closure(G, G[n])

\* The requires relation of the claimed blueprints, as declared.
Declared == [n \in DOMAIN registry |-> registry[n].requires]

\* The declared relation with blueprint l (0: none) placed after all others.
DeclaredPinned(l) ==
    [n \in DOMAIN registry |->
        IF n = l THEN registry[n].requires \cup (DOMAIN registry \ {l})
                 ELSE registry[n].requires]

\* apply has been through boot-order resolution.
Resolved == ap.pc \notin {"idle", "resolve"}

\* Position of name n in the resolved order (0 when absent).
PosInOrder(n) ==
    IF \E j \in 1..Len(ap.order) : ap.order[j] = n
    THEN CHOOSE j \in 1..Len(ap.order) : ap.order[j] = n
    ELSE 0

(***************************************************************************)
(* C8: when the declared requires relation is acyclic and the last-pinned  *)
(* blueprint, if any, is required by no blueprint, resolution succeeds and *)
(* the boot order holds every claimed name exactly once, every blueprint   *)
(* strictly after all the blueprints it requires.                          *)
(***************************************************************************)
C8_BootOrderRespectsRequires ==
    (/\ Resolved
     /\ ~Cyclic(Declared)
     /\ \A n \in DOMAIN registry : ap.last \notin registry[n].requires) =>
        /\ ap.pc # "failed"
        /\ Len(ap.order) = Cardinality(DOMAIN registry)
        /\ \A n \in DOMAIN registry :
             Cardinality({j \in 1..Len(ap.order) : ap.order[j] = n}) = 1
        /\ \A n \in DOMAIN registry : \A r \in registry[n].requires :
             /\ PosInOrder(r) > 0
             /\ PosInOrder(r) < PosInOrder(n)

\* Three blueprints in a chain declared against registration order
\* (1 requires 2, 2 requires 3) were resolved.
C8_Witness ==
    /\ ap.pc = "done"
    /\ DOMAIN registry = 1..3
    /\ registry[1].requires = {2} /\ registry[2].requires = {3}
    /\ registry[3].requires = {}
    /\ ap.order = <<3, 2, 1>>

(***************************************************************************)
(* C9: when exactly one claimed blueprint sets last and the graph with the *)
(* pin is acyclic, that blueprint is the final element of the boot order,  *)
(* whatever it requires itself.                                            *)
(***************************************************************************)
C9_LastIsFinal ==
    \A l \in DOMAIN registry :
        (/\ Resolved
         /\ \A n \in DOMAIN registry : registry[n].last <=> n = l
         /\ ~Cyclic(DeclaredPinned(l))) =>
            /\ ap.pc # "failed"
            /\ ap.last = l
            /\ Len(ap.order) = Cardinality(DOMAIN registry)
            /\ ap.order[Len(ap.order)] = l

\* Blueprint 1 alone sets last and requires nothing, 3 requires 2: 1 is
\* registered first and is booted last.
C9_Witness ==
    /\ ap.pc = "done"
    /\ DOMAIN registry = 1..3
    /\ \A n \in 1..3 : registry[n].last <=> n = 1
    /\ registry[1].requires = {} /\ registry[3].requires = {2}
    /\ ap.order = <<2, 3, 1>>

(***************************************************************************)
(* C10: when the requires relation, with the last pin, contains a cycle,   *)
(* apply fails at resolution: no blueprint is bound, boot_steps is not     *)
(* assigned, no include or create call is made and the host's components   *)
(* list is as it was.                                                      *)
(***************************************************************************)
C10_CycleFailsApply ==
    (Resolved /\ Cyclic(DeclaredPinned(ap.last))) =>
        /\ ap.pc = "failed"
        /\ ap.binding = <<>>
        /\ ~ap.assigned
        /\ ap.boot_steps = <<>>
        /\ log = <<>>
        /\ components = ap.host
        /\ DOMAIN obj = {components[j] : j \in 1..Len(components)}

\* apply failed on a host that held a component, for a cycle that only the
\* last pin creates: 2 requires 1, and 1 is pinned last.
C10_Witness ==
    /\ ap.pc = "failed"
    /\ ap.host = <<0>>
    /\ DOMAIN registry = 1..2
    /\ ~Cyclic(Declared)
    /\ ap.last = 1
    /\ registry[2].requires = {1}

(***************************************************************************)
(* C11: when apply runs on a host whose components list starts empty, the  *)
(* list holds, in boot order, exactly the bound instances that are         *)
(* StartStopComponents and whose include_if answered true (a subsequence   *)
(* of boot_steps); disabled instances and plain Components are in          *)
(* boot_steps but not in the list; create is called on exactly the         *)
(* instances whose include_if answered true, never on a disabled one.      *)
(* This holds after every step of the include loop, whether the loop is    *)
(* between two instances, inside include_if or create, about to append, or *)
(* stopped part-way by an include_if or a create that raised: an instance  *)
(* is in the list only once its include_if answered true and its create    *)
(* returned; when apply returns the loop has covered all of boot_steps.    *)
(***************************************************************************)
C11_ComponentsAreIncludedStartStops ==
    ap.host = <<>> =>
        LET included == SubSeq(ap.boot_steps, 1, ap.i - 1)
            creates  == CompsOf(SelectSeq(log, LAMBDA e : e.ev = "create"))
            InCreate == \/ ap.pc \in {"create_wait", "append"}
                        \/ /\ ap.pc = "aborted" /\ log # <<>>
                           /\ log[Len(log)].ev = "create"
        IN  /\ ap.i \in 1..(Len(ap.boot_steps) + 1)
            /\ components =
                 SelectSeq(included, LAMBDA c : registry[c].enabled
                                               /\ registry[c].startstop)
            /\ creates =
                 SelectSeq(included, LAMBDA c : registry[c].enabled)
                   \o (IF InCreate THEN <<ap.boot_steps[ap.i]>> ELSE <<>>)
            /\ \A k \in 1..Len(creates) : registry[creates[k]].enabled
            /\ \A c \in DOMAIN obj :
                 /\ \E k \in 1..Len(creates) : creates[k] = c
                 /\ obj[c] = registry[c].creates
            /\ \A k \in 1..Len(included) :
                 registry[included[k]].enabled => included[k] \in DOMAIN obj
            /\ ap.pc = "done" =>
                 /\ Len(included) = Len(ap.boot_steps)
                 /\ Len(ap.boot_steps) = Cardinality(DOMAIN registry)
                 /\ {ap.boot_steps[j] : j \in 1..Len(ap.boot_steps)}
                      = DOMAIN registry

\* apply has returned on an empty host: a disabled StartStopComponent or a
\* plain Component stands in boot_steps between two included
\* StartStopComponents, and the boot order is not the order of the names.
C11_Witness ==
    /\ ap.pc = "done" /\ ap.host = <<>>
    /\ Len(ap.boot_steps) = 3
    /\ ap.boot_steps[1] # 1
    /\ Len(components) = 2
    /\ components = <<ap.boot_steps[1], ap.boot_steps[3]>>
    /\ ~registry[ap.boot_steps[2]].enabled \/ ~registry[ap.boot_steps[2]].startstop

(***************************************************************************)
(* C12: when a start call raised inside a component's start, it leaves     *)
(* state = RUN and started equal to the number of components whose start   *)
(* completed: a failure in the k-th component leaves started = k - 1.      *)
(***************************************************************************)
C12_StartedCountsCompletedStarts ==
    \A i \in DOMAIN ops :
        (IsStart(i) /\ RaisedIn(i, {"start", "obj.start"})) =>
            /\ ops[i].exit.state = RUN
            /\ ops[i].exit.started = Len(EventsOf(i, {"start"})) - 1

(***************************************************************************)
(* C13: a StartStopComponent that was included with no service object      *)
(* (create returned None) lets its start, stop and terminate complete      *)
(* without error: no start or stop call ends with an exception that came   *)
(* out of a component's own start, stop or terminate, as opposed to one     *)
(* that came out of a service object, a hook or a component's close.       *)
(***************************************************************************)
C13_NoObjectLifecycleIsNoOp ==
    \A i \in DOMAIN ops : ~RaisedIn(i, {"start", "stop", "terminate"})

(***************************************************************************)
(* C14: stop holds no lock.  A caller passing the guard, and a caller      *)
(* evaluating the fully-started test, only read the state: state is set to *)
(* CLOSE by a later statement, so a second caller can pass both before the *)
(* first one sets it.  Whenever the stop calls of two callers both went    *)
(* through the fully-started path and returned, each of them made all of   *)
(* its calls: close on every component, stop/terminate on every component  *)
(* in reverse order, the on_stopped hook and set() on the Shutdown Signal, *)
(* so each of these was performed twice.                                   *)
(***************************************************************************)
BothFullStops(i, j) ==
    /\ i # j /\ IsStop(i) /\ IsStop(j)
    /\ ops[i].caller # ops[j].caller
    /\ ops[i].res = "ret" /\ ops[i].path = "full"
    /\ ops[j].res = "ret" /\ ops[j].path = "full"

C14_UnlockedGuardLetsBothStopsRun ==
    /\ [](\A i \in DOMAIN ops : \A j \in DOMAIN ops :
            BothFullStops(i, j) =>
                /\ CompsOf(EventsOf(i, {"close"})) = components
                /\ CompsOf(EventsOf(i, StopKinds)) = Reverse(components)
                /\ Len(EventsOf(i, {"on_stopped"})) = 1
                /\ Len(EventsOf(i, {"set"})) = 1)
    /\ [][\A t \in Callers :
            (pc[t] \in {"stop_guard", "stop_check"} /\ pc'[t] # pc[t])
                => state' = state]_vars

\* After a start call that returned, two callers' stop calls on the started
\* namespace have both returned through the fully-started path: the
\* component was closed twice and stopped twice, on_stopped ran twice, the
\* signal was set twice.
C14_Witness ==
    \E i \in DOMAIN ops : \E j \in DOMAIN ops :
        /\ BothFullStops(i, j)
        /\ IsStart(1) /\ ops[1].res = "ret"
        /\ ops[i].entry.state = RUN /\ ops[j].entry.state = RUN
        /\ Len(components) = MaxConcComponents
        /\ \A c \in 1..Len(components) :
             /\ Len(SelectSeq(log, LAMBDA e : e.ev = "close" /\ e.c = c)) = 2
             /\ Len(SelectSeq(log, LAMBDA e : e.ev \in StopKinds /\ e.c = c)) = 2
             /\ Len(SelectSeq(log, LAMBDA e : e.ev = "obj.stop" /\ e.c = c)) = 2
        /\ Len(SelectSeq(log, LAMBDA e : e.ev = "on_stopped")) = 2
        /\ NumSets = 2

(***************************************************************************)
(* C15: started always lies between 0 and the number of components.  A     *)
(* start call made on a namespace whose state is unset starts the          *)
(* components in the order of the host's list, one at a time, and until a  *)
(* later start call begins started equals the number of component start    *)
(* calls that call has begun; it is set to i + 1 before the start of the   *)
(* component at index i is invoked, so between that assignment and the     *)
(* invocation it is one ahead.  When the call returns every component was  *)
(* started.  (A component that tests false is skipped by start, which      *)
(* breaks the count.)                                                      *)
(***************************************************************************)
C15_StartedCountsStartCallsBegun ==
    /\ started \in 0..Len(components)
    /\ \A i \in DOMAIN ops :
         (IsStart(i) /\ ops[i].entry.state = UNSET) =>
            LET begun == EventsOf(i, {"start"})
                about == IF ops[i].res = "run"
                            /\ pc[ops[i].caller] = "start_call"
                         THEN 1 ELSE 0
            IN  /\ IsPrefix(CompsOf(begun), components)
                /\ (\A j \in DOMAIN ops : j > i => ~IsStart(j))
                      => started = Len(begun) + about
                /\ ops[i].res = "ret" => CompsOf(begun) = components

(***************************************************************************)
(* C16: a stop call made on a namespace that was never started (state      *)
(* unset), whatever the number of components, invokes stop/terminate on no *)
(* component and does not invoke on_stopped; the state never becomes CLOSE *)
(* while it runs; it returns through the not-fully-started path with state *)
(* TERMINATE and the Shutdown Signal set.  The only way it can raise is    *)
(* from on_close or a component's close, before the state is touched.      *)
(***************************************************************************)
C16_StopBeforeStartTerminatesDirectly ==
    \A i \in DOMAIN ops :
        (IsStop(i) /\ ops[i].entry.state = UNSET) =>
            /\ EventsOf(i, StopKinds \cup {"obj.stop", "on_stopped"}) = <<>>
            /\ ops[i].res = "raise" =>
                 /\ RaisedIn(i, {"on_close", "close"})
                 /\ ops[i].path = "close"
                 /\ ops[i].exit.state = UNSET
                 /\ ~ops[i].exit.sig
            /\ ops[i].res = "run" => state \in {UNSET, TERMINATE}
            /\ ops[i].res = "ret" =>
                 /\ ops[i].path = "partial"
                 /\ ops[i].exit.state = TERMINATE
                 /\ ops[i].exit.sig
                 /\ Len(EventsOf(i, {"set"})) = 1

\* A stop call on a never-started namespace of two components has
\* returned, leaving state TERMINATE and the signal set.
C16_Witness ==
    \E i \in DOMAIN ops :
        /\ IsStop(i) /\ ops[i].entry.state = UNSET /\ ops[i].res = "ret"
        /\ Len(components) = 2
        /\ state = TERMINATE /\ shutdown_complete

(***************************************************************************)
(* C17 as stated: in every stop call that passes the guard, the call's     *)
(* first effects are the on_close hook (when set) and then close(parent)   *)
(* on every component of the host's list, in list order: they come before  *)
(* any component's stop/terminate, before on_stopped and set(), and before *)
(* the call changes the state; this holds on the not-fully-started path    *)
(* too.                                                                    *)
(***************************************************************************)
AllOf(i) == SelectSeq(log, LAMBDA e : e.call = i)

\* The on_close hook (when set) and a close call on each of comps.
CloseEventsOver(i, comps) ==
    (IF "on_close" \in hooks THEN <<[call |-> i, ev |-> "on_close", c |-> 0]>>
                              ELSE <<>>)
    \o [j \in 1..Len(comps) |-> [call |-> i, ev |-> "close", c |-> comps[j]]]

\* The components that have a close attribute, in list order.
Closable == SelectSeq(components, LAMBDA c : traits[c].close # "absent")

\* The close effects of a call in which neither on_close nor a close raises.
CloseEvents(i) == CloseEventsOver(i, Closable)

C17_CloseOnEveryComponent ==
    \A i \in DOMAIN ops :
        (IsStop(i) /\ ~InGuard(ops[i].entry.state)) =>
            LET evs == AllOf(i)
                all == CloseEventsOver(i, components)
                now == IF ops[i].res = "run" THEN state ELSE ops[i].exit.state
            IN  /\ IsPrefix(evs, all) \/ IsPrefix(all, evs)
                /\ now # ops[i].entry.state => IsPrefix(all, evs)
                /\ ops[i].path \in {"partial", "full"} => IsPrefix(all, evs)

(***************************************************************************)
(* C17 as amended: close(parent) is called on every component of the       *)
(* host's list that has a close attribute, in list order, a component      *)
(* without one being skipped.  The on_close hook and these calls come      *)
(* before any component's stop/terminate, before on_stopped and set(), and *)
(* before the call changes the state, on the not-fully-started path too.   *)
(* A call in which on_close or a close raises ends there, with the state   *)
(* unchanged and the remaining components not closed.                      *)
(***************************************************************************)
C17_CloseComesFirst ==
    \A i \in DOMAIN ops :
        (IsStop(i) /\ ~InGuard(ops[i].entry.state)) =>
            LET evs == AllOf(i)
                cls == CloseEvents(i)
                now == IF ops[i].res = "run" THEN state ELSE ops[i].exit.state
            IN  /\ IsPrefix(evs, cls) \/ IsPrefix(cls, evs)
                /\ now # ops[i].entry.state => IsPrefix(cls, evs)
                /\ ops[i].path \in {"partial", "full"} => IsPrefix(cls, evs)
                /\ ops[i].path = "close" =>
                     /\ RaisedIn(i, {"on_close", "close"})
                     /\ IsPrefix(evs, cls)
                     /\ ops[i].exit.state = ops[i].entry.state

\* A stop call on a started namespace of two components, the first of
\* which has no close attribute, has returned through the fully-started
\* path: the second alone was closed, then the two were stopped.
C17_Witness ==
    \E i \in DOMAIN ops :
        /\ IsStop(i) /\ ops[i].res = "ret" /\ ops[i].path = "full"
        /\ Len(components) = 2 /\ traits[1].close = "absent"
        /\ CompsOf(EventsOf(i, {"close"})) = <<2>>
        /\ CompsOf(EventsOf(i, StopKinds)) = <<2, 1>>

(***************************************************************************)
(* C18: stop(terminate=true) follows the state machine of                  *)
(* stop(terminate=false).  The path of a stop call, its sequence of        *)
(* effects (hooks, close calls, component calls in reverse order, calls on *)
(* the service objects, set()), its exit state and its signal outcome are  *)
(* a function of the namespace state it was entered with, the same for     *)
(* both values of the flag, but for the name of the method each component  *)
(* receives: terminate when the flag is set, stop otherwise.  With the     *)
(* default terminate, each component call makes exactly one stop call on   *)
(* the service object.  A call that raises does so either inside close,    *)
(* with the state unchanged, or on the fully-started path, with state      *)
(* CLOSE.                                                                  *)
(***************************************************************************)
PathFrom(e) ==
    IF InGuard(e.state) THEN "guard"
    ELSE IF NotFullyStarted(e.state, e.started, components) THEN "partial"
    ELSE "full"

\* The component and service-object calls of a stop over comps, with the
\* component method written "stop".
RECURSIVE StopEvents(_, _)
StopEvents(i, comps) ==
    IF comps = <<>> THEN <<>>
    ELSE <<[call |-> i, ev |-> "stop", c |-> Head(comps)]>>
         \o (IF obj[Head(comps)]
             THEN <<[call |-> i, ev |-> "obj.stop", c |-> Head(comps)]>>
             ELSE <<>>)
         \o StopEvents(i, Tail(comps))

\* What a stop call entered with snapshot e does when nothing raises.
EffectsFrom(i, e) ==
    IF PathFrom(e) = "guard" THEN <<>>
    ELSE CloseEvents(i)
         \o (IF PathFrom(e) = "full"
             THEN StopEvents(i, SelectSeq(Reverse(components), Truthy))
                  \o (IF "on_stopped" \in hooks
                      THEN <<[call |-> i, ev |-> "on_stopped", c |-> 0]>>
                      ELSE <<>>)
             ELSE <<>>)
         \o <<[call |-> i, ev |-> "set", c |-> 0]>>

\* The effects of call i with every terminate written as stop.
AsStop(evs) ==
    [j \in 1..Len(evs) |->
        IF evs[j].ev = "terminate" THEN [evs[j] EXCEPT !.ev = "stop"] ELSE evs[j]]

C18_TerminateFollowsStop ==
    \A i \in DOMAIN ops :
        IsStop(i) =>
            LET e    == ops[i].entry
                evs  == AllOf(i)
                done == AsStop(evs)
                want == EffectsFrom(i, e)
            IN  /\ \A j \in 1..Len(evs) :
                     evs[j].ev \in StopKinds =>
                         evs[j].ev = (IF ops[i].terminate THEN "terminate" ELSE "stop")
                /\ IsPrefix(done, want)
                /\ ops[i].res = "run" =>
                     state \in {e.state} \cup
                               (IF PathFrom(e) = "full" THEN {CLOSE, TERMINATE}
                                ELSE IF PathFrom(e) = "partial" THEN {TERMINATE}
                                ELSE {})
                /\ ops[i].res = "ret" =>
                     /\ done = want
                     /\ ops[i].path = PathFrom(e)
                     /\ ops[i].exit.state =
                          (IF PathFrom(e) = "guard" THEN e.state ELSE TERMINATE)
                     /\ ops[i].exit.sig = (e.sig \/ PathFrom(e) # "guard")
                /\ ops[i].res = "raise" =>
                     /\ PathFrom(e) # "guard"
                     /\ ops[i].exit.sig = e.sig
                     /\ \/ /\ ops[i].path = "close"
                           /\ RaisedIn(i, {"on_close", "close"})
                           /\ ops[i].exit.state = e.state
                        \/ /\ ops[i].path = "full"
                           /\ PathFrom(e) = "full"
                           /\ RaisedIn(i, StopKinds \cup {"obj.stop", "on_stopped"})
                           /\ ops[i].exit.state = CLOSE

\* A terminate call on a started namespace of two components has
\* returned: each component received terminate, each service object one stop.
C18_Witness ==
    \E i \in DOMAIN ops :
        /\ IsStop(i) /\ ops[i].terminate /\ ops[i].res = "ret"
        /\ ops[i].path = "full"
        /\ CompsOf(EventsOf(i, {"terminate"})) = <<2, 1>>
        /\ CompsOf(EventsOf(i, {"obj.stop"})) = <<2, 1>>
        /\ EventsOf(i, {"stop"}) = <<>>

(***************************************************************************)
(* C19: during apply every claimed blueprint is bound (its constructor     *)
(* run, its namespace back-reference set) in the resolved boot order       *)
(* before include, and hence create, is called on any instance; include is *)
(* then called on the instances in the same boot order.  A constructor     *)
(* that raises stops apply before boot_steps is assigned and before any    *)
(* include; an include_if or a create that raises stops the include loop   *)
(* at that instance, the instances after it in boot order not included.    *)
(***************************************************************************)
C19_BindAllThenIncludeInBootOrder ==
    LET binds    == SelectSeq(log, LAMBDA e : e.ev = "bind")
        includes == SelectSeq(log, LAMBDA e : e.ev = "include")
        Between  == ap.pc \in {"include", "done"}
    IN  /\ IsPrefix(CompsOf(binds), ap.order)
        /\ CompsOf(binds) = ap.binding
        /\ IsPrefix(CompsOf(includes), ap.order)
        /\ \A j \in DOMAIN log : \A k \in DOMAIN log :
             (log[j].ev = "bind" /\ log[k].ev \in {"include", "create"}) => j < k
        /\ (\E k \in DOMAIN log : log[k].ev \in {"include", "create"}) =>
             /\ CompsOf(binds) = ap.order
             /\ {ap.order[j] : j \in 1..Len(ap.order)} = ap.claimed
             /\ ap.claimed = DOMAIN registry
             /\ ap.assigned /\ ap.boot_steps = ap.order
        /\ \A k \in DOMAIN log :
             log[k].ev = "create" =>
                 k > 1 /\ log[k - 1] = [log[k] EXCEPT !.ev = "include"]
        /\ ~ap.assigned => includes = <<>> /\ ap.boot_steps = <<>>
        /\ ap.assigned =>
             Len(includes) = IF Between THEN ap.i - 1 ELSE ap.i
        /\ ap.pc = "done" => CompsOf(includes) = ap.order

\* apply has returned over three blueprints whose boot order is not the
\* order of their names: the three were bound, then the three included.
C19_Witness ==
    /\ ap.pc = "done"
    /\ Len(ap.order) = 3 /\ ap.order # <<1, 2, 3>>
    /\ Len(log) = 9
    /\ CompsOf(SubSeq(log, 1, 3)) = ap.order
    /\ \A j \in 1..3 : log[j].ev = "bind"
    /\ \A j \in 4..9 : log[j].ev \in {"include", "create"}

(***************************************************************************)
(* C20: when a component's stop/terminate raises during a stop call        *)
(* entered with the Shutdown Signal unset, the failure leaves state CLOSE, *)
(* the signal unset and the default socket timeout lowered; the components *)
(* that come earlier in boot order are not stopped.  As long as no start   *)
(* call follows, every later stop/terminate call returns through the guard *)
(* without any effect, so the state stays CLOSE and the signal is never    *)
(* set.                                                                    *)
(***************************************************************************)
C20_RaisingStopLeavesCloseForever ==
    \A i \in DOMAIN ops :
        (IsStop(i) /\ RaisedIn(i, StopKinds \cup {"obj.stop"}) /\ ~ops[i].entry.sig) =>
            LET stops == EventsOf(i, StopKinds)
                k     == Len(stops)
                n     == Len(components)
            IN  /\ FullyStartedAt(i)
                /\ ops[i].exit.state = CLOSE
                /\ ~ops[i].exit.sig
                /\ ops[i].exit.timeout = SHUTDOWN_SOCKET_TIMEOUT
                /\ k >= 1
                /\ IsPrefix(CompsOf(stops), SelectSeq(Reverse(components), Truthy))
                /\ EventsOf(i, {"on_stopped", "set"}) = <<>>
                /\ (\A j \in DOMAIN ops : j > i => ~IsStart(j)) =>
                     /\ state = CLOSE
                     /\ ~shutdown_complete
                     /\ \A h \in DOMAIN log :
                          h > ops[i].exit.nlog =>
                              log[h].ev \in {"on_close", "close"}
                     /\ \A j \in DOMAIN ops :
                          (j > i /\ IsStop(j)) =>
                              /\ ops[j].res # "raise"
                              /\ ops[j].res = "ret" => ops[j].path = "guard"
                              /\ AllOf(j) = <<>>

\* On a started namespace of two components the second component's stop
\* raised; a later stop call has returned: state is CLOSE, the signal unset,
\* the first component was never stopped.
C20_Witness ==
    \E i \in DOMAIN ops :
        /\ IsStop(i) /\ RaisedIn(i, StopKinds \cup {"obj.stop"}) /\ ~ops[i].entry.sig
        /\ Len(components) = 2
        /\ CompsOf(EventsOf(i, StopKinds)) = <<2>>
        /\ i < Len(ops) /\ IsStop(Len(ops)) /\ ops[Len(ops)].res = "ret"
        /\ state = CLOSE /\ ~shutdown_complete
        /\ socket_timeout = SHUTDOWN_SOCKET_TIMEOUT

====
